---- MODULE Spec2Model ----
(***************************************************************************)
(* Order-draft state machine of src/src/components/OrderForm.tsx.          *)
(*                                                                         *)
(* The component is a React function component.  Its state is the set of   *)
(* useState slices; its operations are the event handlers, the two         *)
(* asynchronous catalog loads and the two effects.  One action models one  *)
(* event: the handler, the re-render it causes and the passive effects     *)
(* that re-render schedules (React flushes them before the next event is   *)
(* handled).                                                               *)
(*                                                                         *)
(* Strings that the code inspects character by character (supplier names,  *)
(* product names, order numbers) are sequences of one-character strings.   *)
(* Strings that are only stored and tested for emptiness (delivery         *)
(* address, payment method, notes, status) are TLA+ strings.               *)
(* The two dropdown-visibility flags (showSupplierDropdown and             *)
(* showProductDropdown) are not state of the model: nothing but the        *)
(* rendering of the option lists reads them, the user can always set them  *)
(* (focus, chevron button), and so an option of a picker can be clicked    *)
(* exactly when the picker's list would contain it.                        *)
(* Numbers are integers: catalog prices and typed quantities are drawn     *)
(* from integer sets.  Timestamps (createdAt, estimatedDelivery,           *)
(* statusHistory[].timestamp) and the Date.now() productId are left out of *)
(* the records: no handler reads them.  The notes textarea is a plain      *)
(* field write like the delivery address and the payment method; of the    *)
(* three, the two that handleSubmit reads are explored.                    *)
(***************************************************************************)
EXTENDS Integers, Sequences, FiniteSets, TLC

VARIABLES
    isOpen,               \* prop isOpen
    lastOrderNumber,      \* prop lastOrderNumber (Undefined when absent)
    suppliers,            \* useState<Supplier[]>
    products,             \* useState<Product[]>
    filteredProducts,     \* useState<Product[]>
    supplierSearch,       \* useState('')
    productSearch,        \* useState('')
    formData,             \* useState<Partial<Order>>
    newItem,              \* useState<Partial<OrderItem>>
    pendingSuppliers,     \* getSuppliers() promises not yet settled
    pendingProducts,      \* getItems() promises not yet settled
    calls                 \* onSave / onClose calls made since the form was opened

vars == <<isOpen, lastOrderNumber, suppliers, products, filteredProducts,
          supplierSearch, productSearch, formData, newItem,
          pendingSuppliers, pendingProducts, calls>>

----------------------------------------------------------------------------
(* Bounds                                                                  *)

MaxItems == 2      \* longest item list explored
MaxPending == 1    \* most loads of one kind in flight at once
MaxSuffix == 4     \* longest text after "ORD" in an explored lastOrderNumber

----------------------------------------------------------------------------
(* JavaScript strings and numbers                                          *)

Empty == <<>>

\* the value `undefined` where a string is expected
Undefined == <<"undefined">>

\* JavaScript truthiness of a string-or-undefined value
TruthyStr(s) == s # Undefined /\ s # Empty

\* JavaScript truthiness of a number (no NaN arises for quantity or price)
TruthyNum(n) == n # 0

LowerOf(c) ==
    CASE c = "A" -> "a" [] c = "B" -> "b" [] c = "C" -> "c"
      [] c = "E" -> "e" [] c = "L" -> "l" [] c = "M" -> "m"
      [] c = "N" -> "n" [] c = "P" -> "p" [] c = "S" -> "s"
      [] c = "T" -> "t" [] c = "Z" -> "z"
      [] OTHER -> c

toLowerCase(s) == [i \in 1..Len(s) |-> LowerOf(s[i])]

\* String.prototype.includes
includes(s, sub) ==
    \E i \in 0..(Len(s) - Len(sub)) : SubSeq(s, i + 1, i + Len(sub)) = sub

\* index of the first occurrence of character c in s, 0 when absent
RECURSIVE IndexOfFrom(_, _, _)
IndexOfFrom(s, c, i) ==
    IF i > Len(s) THEN 0
    ELSE IF s[i] = c THEN i
    ELSE IndexOfFrom(s, c, i + 1)

\* String.prototype.split with a one-character separator
RECURSIVE split(_, _)
split(s, sep) ==
    LET k == IndexOfFrom(s, sep, 1)
    IN  IF k = 0 THEN <<s>>
        ELSE <<SubSeq(s, 1, k - 1)>> \o split(SubSeq(s, k + 1, Len(s)), sep)

\* JavaScript array indexing, zero based, `undefined` past the end
At(arr, i) == IF i + 1 <= Len(arr) THEN arr[i + 1] ELSE Undefined

NaN == [nan |-> TRUE, n |-> 0]
Num(k) == [nan |-> FALSE, n |-> k]

IsDigit(c) == c \in {"0", "1", "2", "3", "4", "5", "6", "7", "8", "9"}

DigitVal(c) ==
    CASE c = "0" -> 0 [] c = "1" -> 1 [] c = "2" -> 2 [] c = "3" -> 3
      [] c = "4" -> 4 [] c = "5" -> 5 [] c = "6" -> 6 [] c = "7" -> 7
      [] c = "8" -> 8 [] c = "9" -> 9

DigitChar(d) == <<"0", "1", "2", "3", "4", "5", "6", "7", "8", "9">>[d + 1]

\* value of the longest digit prefix of s from position i, given the
\* value acc of the digits already read
RECURSIVE DigitsFrom(_, _, _)
DigitsFrom(s, i, acc) ==
    IF i <= Len(s) /\ IsDigit(s[i])
    THEN DigitsFrom(s, i + 1, acc * 10 + DigitVal(s[i]))
    ELSE acc

RECURSIVE SkipSpaces(_, _)
SkipSpaces(s, i) ==
    IF i <= Len(s) /\ s[i] = " " THEN SkipSpaces(s, i + 1) ELSE i

\* parseInt(x) with radix 10: `undefined` is converted to the string
\* "undefined"; leading blanks and one sign are skipped; the longest digit
\* prefix is the value; NaN when there is no digit
parseInt(x) ==
    IF x = Undefined THEN NaN
    ELSE LET i == SkipSpaces(x, 1)
             signed == i <= Len(x) /\ x[i] \in {"+", "-"}
             j == IF signed THEN i + 1 ELSE i
             mag == DigitsFrom(x, j, 0)
         IN  IF j <= Len(x) /\ IsDigit(x[j])
             THEN Num(IF signed /\ x[i] = "-" THEN 0 - mag ELSE mag)
             ELSE NaN

\* currentNumber + 1
PlusOne(x) == IF x.nan THEN NaN ELSE Num(x.n + 1)

RECURSIVE NatToString(_)
NatToString(k) ==
    IF k < 10 THEN <<DigitChar(k)>>
    ELSE NatToString(k \div 10) \o <<DigitChar(k % 10)>>

\* String(x) for a number
NumberToString(x) ==
    IF x.nan THEN <<"N", "a", "N">>
    ELSE IF x.n < 0 THEN <<"-">> \o NatToString(0 - x.n)
    ELSE NatToString(x.n)

\* variant of padStart: the order number is not padded
padStartNone(s, width, fill) == s

\* String.prototype.padStart with a one-character filler
RECURSIVE padStart(_, _, _)
padStart(s, width, fill) ==
    IF Len(s) >= width THEN s ELSE padStart(<<fill>> \o s, width, fill)

ORD == <<"O", "R", "D", "-">>

generateOrderNumber(lon) ==
    IF ~TruthyStr(lon) THEN ORD \o <<"0", "0", "1">>
    ELSE LET currentNumber == parseInt(At(split(lon, "-"), 1))
         IN  ORD \o padStart(NumberToString(PlusOne(currentNumber)), 3, "0")

----------------------------------------------------------------------------
(* Inputs: catalog responses and typed values                              *)

Acme == <<"A", "c", "m", "e">>
AcmeTyped == <<"a", "c", "m", "e">>
AcmeUpper == <<"A", "C", "M", "E">>
Best == <<"B", "e", "s", "t">>
Pan == <<"P", "a", "n">>
Sal == <<"S", "a", "l">>
Paz == <<"P", "a", "z">>
PaTyped == <<"p", "a">>

\* response.data of getSuppliers()
SupplierCatalog == <<[name |-> Acme], [name |-> Best]>>

\* response.data of getItems(); the last product has no owning supplier
ProductCatalog ==
    <<[name |-> Pan, price |-> 1500, supplier |-> AcmeUpper],
      [name |-> Sal, price |-> 0, supplier |-> Best],
      [name |-> Paz, price |-> 900, supplier |-> Empty]>>

SupplierInputs == {Empty, AcmeTyped}
ProductInputs == {Empty, PaTyped}
QuantityInputs == {0, -2}
\* the initial deliveryAddress, written here without its accent
DefaultAddress == "Av. Camilo Henriquez 3692"
AddressInputs == {"", DefaultAddress}
PaymentOptions == {"", "Efectivo"}
LastOrderNumbers == {Undefined, ORD \o <<"0", "0", "1">>}

----------------------------------------------------------------------------
(* State after construction                                                *)

InitialFormData(lon) ==
    [orderNumber |-> generateOrderNumber(lon),
     supplier |-> Empty,
     status |-> "pending",
     items |-> <<>>,
     total |-> 0,
     deliveryAddress |-> DefaultAddress,
     paymentMethod |-> "",
     notes |-> "",
     statusHistory |-> <<[status |-> "pending"]>>]

InitialNewItem == [name |-> Empty, quantity |-> 1, price |-> 0]

\* the component mounted closed with props (isOpen = false, lon)
Mounted(lon) ==
    /\ isOpen = FALSE
    /\ lastOrderNumber = lon
    /\ suppliers = <<>>
    /\ products = <<>>
    /\ filteredProducts = <<>>
    /\ supplierSearch = Empty
    /\ productSearch = Empty
    /\ formData = InitialFormData(lon)
    /\ newItem = InitialNewItem
    /\ pendingSuppliers = 0
    /\ pendingProducts = 0
    /\ calls = <<>>

Init == Mounted(Undefined)

----------------------------------------------------------------------------
(* Derived values of a render                                              *)

filteredSuppliers ==
    SelectSeq(suppliers,
              LAMBDA s : includes(toLowerCase(s.name), toLowerCase(supplierSearch)))

searchFilteredProducts ==
    SelectSeq(filteredProducts,
              LAMBDA p : includes(toLowerCase(p.name), toLowerCase(productSearch)))

\* disabled attribute of the add button
addDisabled ==
    ~TruthyStr(newItem.name) \/ ~TruthyNum(newItem.quantity) \/ ~TruthyNum(newItem.price)

----------------------------------------------------------------------------
(* Effect on [formData.supplier, products]                                 *)

\* variant of supplierProducts: the supplier names are compared as written
supplierProductsExact(fd, prods) ==
    IF TruthyStr(fd.supplier)
    THEN SelectSeq(prods, LAMBDA p : p.supplier = fd.supplier)
    ELSE <<>>

supplierProducts(fd, prods) ==
    IF TruthyStr(fd.supplier)
    THEN SelectSeq(prods,
                   LAMBDA p : toLowerCase(p.supplier) = toLowerCase(fd.supplier))
    ELSE <<>>

\* variant of clearStaged: the staged price is kept
clearStagedNameOnly(prev) == [prev EXCEPT !.name = Empty]

\* setNewItem(prev => ({ ...prev, name: '', price: 0 }))
clearStaged(prev) == [prev EXCEPT !.name = Empty, !.price = 0]

\* The effect runs after a render in which formData.supplier or the
\* products array differs from the previous render; ni is the composer as
\* the handler left it.
supplierEffect(fd, prods, ni) ==
    /\ filteredProducts' = supplierProducts(fd, prods)
    /\ newItem' = clearStaged(ni)
    /\ productSearch' = Empty

----------------------------------------------------------------------------
(* Props: opening the form, and the effect on [isOpen]                     *)

\* the parent renders the form with isOpen = true and lastOrderNumber = lon;
\* the effect calls loadSuppliers() and loadProducts()
openWith(lon) ==
    /\ ~isOpen
    /\ pendingSuppliers < MaxPending
    /\ pendingProducts < MaxPending
    /\ isOpen' = TRUE
    /\ lastOrderNumber' = lon
    /\ pendingSuppliers' = pendingSuppliers + 1
    /\ pendingProducts' = pendingProducts + 1
    /\ calls' = <<>>
    /\ UNCHANGED <<suppliers, products, filteredProducts, supplierSearch,
                   productSearch, formData, newItem>>

Open == \E lon \in LastOrderNumbers : openWith(lon)

\* the form is opened again with the lastOrderNumber it was mounted with
reopen == openWith(lastOrderNumber)

(* Catalog loads                                                           *)

loadSuppliersOk ==
    /\ pendingSuppliers > 0
    /\ pendingSuppliers' = pendingSuppliers - 1
    /\ suppliers' = SupplierCatalog
    /\ UNCHANGED calls
    /\ UNCHANGED <<isOpen, lastOrderNumber, products, filteredProducts,
                   supplierSearch,
                   productSearch, formData, newItem, pendingProducts>>

loadSuppliersFail ==
    /\ pendingSuppliers > 0
    /\ pendingSuppliers' = pendingSuppliers - 1
    /\ UNCHANGED calls
    /\ UNCHANGED <<isOpen, lastOrderNumber, suppliers, products, filteredProducts,
                   supplierSearch,
                   productSearch, formData, newItem, pendingProducts>>

\* variant of loadProductsOk: the supplier list is reset with the products
loadProductsOkResetsSuppliers ==
    /\ pendingProducts > 0
    /\ pendingProducts' = pendingProducts - 1
    /\ products' = ProductCatalog
    /\ suppliers' = <<>>
    /\ supplierEffect(formData, ProductCatalog, newItem)
    /\ UNCHANGED calls
    /\ UNCHANGED <<isOpen, lastOrderNumber, supplierSearch, formData,
                   pendingSuppliers>>

\* response.data is a new array, so the effect on [.., products] runs
loadProductsOk ==
    /\ pendingProducts > 0
    /\ pendingProducts' = pendingProducts - 1
    /\ products' = ProductCatalog
    /\ supplierEffect(formData, ProductCatalog, newItem)
    /\ UNCHANGED calls
    /\ UNCHANGED <<isOpen, lastOrderNumber, suppliers, supplierSearch, formData,
                   pendingSuppliers>>

loadProductsFail ==
    /\ pendingProducts > 0
    /\ pendingProducts' = pendingProducts - 1
    /\ UNCHANGED calls
    /\ UNCHANGED <<isOpen, lastOrderNumber, suppliers, products, filteredProducts,
                   supplierSearch,
                   productSearch, formData, newItem, pendingSuppliers>>

----------------------------------------------------------------------------
(* Supplier picker                                                         *)

\* variant of setSupplier: the search string is not updated
setSupplierDraftOnly(v) ==
    /\ supplierSearch' = supplierSearch
    /\ formData' = [formData EXCEPT !.supplier = v]
    /\ IF v # formData.supplier
       THEN supplierEffect([formData EXCEPT !.supplier = v], products, newItem)
       ELSE UNCHANGED <<filteredProducts, newItem, productSearch>>

\* the state a handler leaves when it sets the draft's supplier to v
setSupplier(v) ==
    /\ supplierSearch' = v
    /\ formData' = [formData EXCEPT !.supplier = v]
    /\ IF v # formData.supplier
       THEN supplierEffect([formData EXCEPT !.supplier = v], products, newItem)
       ELSE UNCHANGED <<filteredProducts, newItem, productSearch>>

supplierInputChange ==
    \E v \in SupplierInputs :
        /\ isOpen
        /\ v # supplierSearch
        /\ setSupplier(v)
        /\ UNCHANGED calls
        /\ UNCHANGED <<isOpen, lastOrderNumber, suppliers, products,
                       pendingSuppliers, pendingProducts>>

handleSupplierSelect ==
    \E k \in 1..Len(filteredSuppliers) :
        /\ isOpen
        /\ setSupplier(filteredSuppliers[k].name)
        /\ UNCHANGED calls
        /\ UNCHANGED <<isOpen, lastOrderNumber, suppliers, products,
                       pendingSuppliers, pendingProducts>>

----------------------------------------------------------------------------
(* Product picker and line-item composer                                   *)

\* variant of productInputChange: the input is not disabled
productInputChangeEnabled ==
    \E v \in ProductInputs :
        /\ isOpen
        /\ v # productSearch
        /\ productSearch' = v
        /\ newItem' = [newItem EXCEPT !.name = v]
        /\ UNCHANGED calls
        /\ UNCHANGED <<isOpen, lastOrderNumber, suppliers, products, filteredProducts,
                       supplierSearch, formData,
                       pendingSuppliers, pendingProducts>>

\* the product input is disabled while formData.supplier is falsy
productInputChange ==
    \E v \in ProductInputs :
        /\ isOpen
        /\ TruthyStr(formData.supplier)
        /\ v # productSearch
        /\ productSearch' = v
        /\ newItem' = [newItem EXCEPT !.name = v]
        /\ UNCHANGED calls
        /\ UNCHANGED <<isOpen, lastOrderNumber, suppliers, products, filteredProducts,
                       supplierSearch, formData,
                       pendingSuppliers, pendingProducts>>

\* variant of handleProductSelect: the search string is not set
handleProductSelectKeepsSearch ==
    \E k \in 1..Len(searchFilteredProducts) :
        LET product == searchFilteredProducts[k]
        IN  /\ isOpen
            /\ TruthyStr(formData.supplier)
            /\ newItem' = [newItem EXCEPT !.name = product.name,
                                          !.price = product.price]
            /\ UNCHANGED <<isOpen, lastOrderNumber, suppliers, products,
                           filteredProducts, supplierSearch, productSearch,
                           formData, pendingSuppliers, pendingProducts, calls>>

handleProductSelect ==
    \E k \in 1..Len(searchFilteredProducts) :
        LET product == searchFilteredProducts[k]
        IN  /\ isOpen
            /\ TruthyStr(formData.supplier)
            /\ newItem' = [newItem EXCEPT !.name = product.name,
                                          !.price = product.price]
            /\ productSearch' = product.name
            /\ UNCHANGED calls
            /\ UNCHANGED <<isOpen, lastOrderNumber, suppliers, products,
                           filteredProducts, supplierSearch,
                           formData, pendingSuppliers, pendingProducts>>

\* Number(e.target.value) of the quantity input; the price input is readOnly
quantityInputChange ==
    \E q \in QuantityInputs :
        /\ isOpen
        /\ q # newItem.quantity
        /\ newItem' = [newItem EXCEPT !.quantity = q]
        /\ UNCHANGED calls
        /\ UNCHANGED <<isOpen, lastOrderNumber, suppliers, products, filteredProducts,
                       supplierSearch,
                       productSearch, formData, pendingSuppliers, pendingProducts>>

----------------------------------------------------------------------------
(* addItem and removeItem                                                  *)

\* variant of addItemReturnsEarly: the quantity is not tested
addItemReturnsEarlyNoQuantity(ni) ==
    ~TruthyStr(ni.name) \/ ~TruthyNum(ni.price)

\* the guard of addItem's early return
addItemReturnsEarly(ni) ==
    ~TruthyStr(ni.name) \/ ~TruthyNum(ni.quantity) \/ ~TruthyNum(ni.price)

\* variant of newOrderItem: the subtotal is the unit price
newOrderItemUnitSubtotal(ni) ==
    [name |-> ni.name,
     quantity |-> ni.quantity,
     price |-> ni.price,
     subtotal |-> ni.price]

newOrderItem(ni) ==
    [name |-> ni.name,
     quantity |-> ni.quantity,
     price |-> ni.price,
     subtotal |-> ni.quantity * ni.price]

\* variant of addItemData: the new item is put first
addItemDataPrepend(prev, ni) ==
    [prev EXCEPT !.items = <<newOrderItem(ni)>> \o prev.items,
                 !.total = prev.total + newOrderItem(ni).subtotal]

\* setFormData(prev => ({...prev, items: [...prev.items, item], total: prev.total + item.subtotal}))
addItemData(prev, ni) ==
    [prev EXCEPT !.items = Append(prev.items, newOrderItem(ni)),
                 !.total = prev.total + newOrderItem(ni).subtotal]

\* variant of withoutIndex: the first item is dropped whatever the index
withoutIndexFirst(items, index) ==
    [j \in 1..(Len(items) - 1) |-> items[j + 1]]

\* items.filter((_, i) => i !== index), index counted from 1 here
withoutIndex(items, index) ==
    [j \in 1..(Len(items) - 1) |-> IF j < index THEN items[j] ELSE items[j + 1]]

\* variant of removeItemData: the total decreases by the unit price
removeItemDataByPrice(prev, index) ==
    [prev EXCEPT !.items = withoutIndex(prev.items, index),
                 !.total = prev.total - prev.items[index].price]

\* setFormData(prev => ({...prev, items: items.filter(..), total: prev.total - removedItem.subtotal}))
removeItemData(prev, index) ==
    [prev EXCEPT !.items = withoutIndex(prev.items, index),
                 !.total = prev.total - prev.items[index].subtotal]

addItem ==
    /\ isOpen
    /\ IF addItemReturnsEarly(newItem)
       THEN UNCHANGED <<formData, newItem, productSearch>>
       ELSE /\ Len(formData.items) < MaxItems
            /\ formData' = addItemData(formData, newItem)
            /\ newItem' = InitialNewItem
            /\ productSearch' = Empty
    /\ UNCHANGED calls
    /\ UNCHANGED <<isOpen, lastOrderNumber, suppliers, products, filteredProducts,
                   supplierSearch,
                   pendingSuppliers, pendingProducts>>

\* one remove button is rendered per item of formData.items
removeItem ==
    \E index \in 1..Len(formData.items) :
        /\ isOpen
        /\ formData' = removeItemData(formData, index)
        /\ UNCHANGED calls
        /\ UNCHANGED <<isOpen, lastOrderNumber, suppliers, products, filteredProducts,
                       supplierSearch,
                       productSearch, newItem, pendingSuppliers, pendingProducts>>

----------------------------------------------------------------------------
(* Plain draft fields                                                      *)

deliveryAddressChange ==
    \E v \in AddressInputs :
        /\ isOpen
        /\ v # formData.deliveryAddress
        /\ formData' = [formData EXCEPT !.deliveryAddress = v]
        /\ UNCHANGED calls
        /\ UNCHANGED <<isOpen, lastOrderNumber, suppliers, products, filteredProducts,
                       supplierSearch,
                       productSearch, newItem, pendingSuppliers, pendingProducts>>

paymentMethodChange ==
    \E v \in PaymentOptions :
        /\ isOpen
        /\ v # formData.paymentMethod
        /\ formData' = [formData EXCEPT !.paymentMethod = v]
        /\ UNCHANGED calls
        /\ UNCHANGED <<isOpen, lastOrderNumber, suppliers, products, filteredProducts,
                       supplierSearch,
                       productSearch, newItem, pendingSuppliers, pendingProducts>>

----------------------------------------------------------------------------
(* Submission and cancel                                                   *)

\* variant of submitRejected: the payment method is not required
submitRejectedNoPayment(fd) ==
    \/ ~TruthyStr(fd.supplier)
    \/ fd.deliveryAddress = ""
    \/ Len(fd.items) = 0

\* the guard of handleSubmit's alert-and-return
submitRejected(fd) ==
    \/ ~TruthyStr(fd.supplier)
    \/ fd.deliveryAddress = ""
    \/ fd.paymentMethod = ""
    \/ Len(fd.items) = 0

\* variant of submitCalls: the form is closed before the order is saved
submitCallsCloseFirst(fd) ==
    IF submitRejected(fd)
    THEN <<>>
    ELSE <<[cb |-> "onClose"], [cb |-> "onSave", order |-> fd]>>

\* the callbacks handleSubmit invokes, in order (alert is not recorded)
submitCalls(fd) ==
    IF submitRejected(fd)
    THEN <<>>
    ELSE <<[cb |-> "onSave", order |-> fd], [cb |-> "onClose"]>>

\* onClose dismisses the form: the parent sets isOpen to false
handleSubmit ==
    /\ isOpen
    /\ calls' = calls \o submitCalls(formData)
    /\ isOpen' = submitRejected(formData)
    /\ UNCHANGED <<lastOrderNumber, suppliers, products, filteredProducts,
                   supplierSearch,
                   productSearch, formData, newItem, pendingSuppliers,
                   pendingProducts>>

\* the X and Cancelar buttons call onClose
cancel ==
    /\ isOpen
    /\ calls' = Append(calls, [cb |-> "onClose"])
    /\ isOpen' = FALSE
    /\ UNCHANGED <<lastOrderNumber, suppliers, products, filteredProducts,
                   supplierSearch,
                   productSearch, formData, newItem, pendingSuppliers,
                   pendingProducts>>

----------------------------------------------------------------------------

Next ==
    \/ Open
    \/ loadSuppliersOk
    \/ loadSuppliersFail
    \/ loadProductsOk
    \/ loadProductsFail
    \/ supplierInputChange
    \/ handleSupplierSelect
    \/ productInputChange
    \/ handleProductSelect
    \/ quantityInputChange
    \/ addItem
    \/ removeItem
    \/ deliveryAddressChange
    \/ paymentMethodChange
    \/ handleSubmit
    \/ cancel

Spec == Init /\ [][Next]_vars

----------------------------------------------------------------------------
(* The order-number generator over arbitrary lastOrderNumber props: the    *)
(* form is mounted with any explored prop value and then opened, loaded    *)
(* and cancelled with that prop held.                                      *)

GenAlphabet == {"0", "7", "9", "-", "a"}

GenSuffixes == UNION {[1..k -> GenAlphabet] : k \in 0..MaxSuffix}

GenInputs == {Undefined} \cup {<<"O", "R", "D">> \o s : s \in GenSuffixes}

InitGen == \E lon \in GenInputs : Mounted(lon)

NextGen ==
    \/ reopen
    \/ loadSuppliersOk
    \/ loadSuppliersFail
    \/ loadProductsOk
    \/ loadProductsFail
    \/ cancel

SpecGen == InitGen /\ [][NextGen]_vars

----------------------------------------------------------------------------
(* Properties                                                              *)

RECURSIVE SumSubtotals(_)
SumSubtotals(items) ==
    IF items = <<>> THEN 0
    ELSE items[1].subtotal + SumSubtotals(Tail(items))

Elements(seq) == {seq[i] : i \in 1..Len(seq)}

\* the composer holds a name, a quantity and a price that are all truthy
ComposerComplete ==
    newItem.name # Empty /\ newItem.quantity # 0 /\ newItem.price # 0

\* the four conditions under which a submission is to be rejected
DraftIncomplete ==
    \/ formData.supplier = Empty
    \/ formData.deliveryAddress = ""
    \/ formData.paymentMethod = ""
    \/ formData.items = <<>>

C2_SupplierChangeClearsStaged ==
    [][formData'.supplier # formData.supplier
         => /\ newItem'.name = Empty
            /\ newItem'.price = 0
            /\ productSearch' = Empty]_vars

\* a product of supplier Acme is staged and the supplier list is loaded, so
\* that supplier Best can be selected
C2_Witness ==
    /\ isOpen
    /\ toLowerCase(formData.supplier) = AcmeTyped
    /\ newItem.name = Pan
    /\ newItem.price = 1500
    /\ suppliers = SupplierCatalog

\* C3: in every reachable state the product picker's candidates are the
\* loaded products whose supplier equals the draft's supplier ignoring case
\* and whose name contains the product search string ignoring case, and
\* there is none while the draft's supplier is empty.
C3_CandidateSet ==
    Elements(searchFilteredProducts) =
        IF formData.supplier = Empty THEN {}
        ELSE {p \in Elements(products) :
                 /\ toLowerCase(p.supplier) = toLowerCase(formData.supplier)
                 /\ includes(toLowerCase(p.name), toLowerCase(productSearch))}

\* a supplier typed in lower case and a search string select one product of
\* a catalog that holds products of other suppliers
C3_Witness ==
    /\ isOpen
    /\ formData.supplier = AcmeTyped
    /\ productSearch = PaTyped
    /\ Len(products) = 3
    /\ Elements(searchFilteredProducts) = {products[1]}

\* C4: a handleSubmit step of an incomplete draft invokes neither onSave
\* nor onClose, keeps the form open and leaves the draft unchanged; a
\* handleSubmit step of any other draft invokes onSave.
C4_SubmitRejectedIff ==
    [][handleSubmit
         => IF DraftIncomplete
            THEN calls' = calls /\ formData' = formData /\ isOpen'
            ELSE \E i \in 1..Len(calls') : calls'[i].cb = "onSave"]_vars

\* an open draft that lacks only the payment method
C4_Witness ==
    /\ isOpen
    /\ formData.supplier # Empty
    /\ formData.deliveryAddress # ""
    /\ formData.paymentMethod = ""
    /\ formData.items # <<>>

\* C5: a handleSubmit step of a complete draft invokes onSave once with the
\* draft as it is, then onClose once, and nothing else.
C5_SaveThenClose ==
    [][handleSubmit /\ ~DraftIncomplete
         => /\ calls' = <<[cb |-> "onSave", order |-> formData],
                          [cb |-> "onClose"]>>
            /\ formData' = formData]_vars

\* the form has just been closed by an accepted submission
C5_Witness ==
    /\ ~isOpen
    /\ Len(calls) = 2
    /\ calls[1].cb = "onSave"
    /\ calls[1].order = formData
    /\ Len(formData.items) = 2

\* C6: whenever isOpen goes from false to true the draft and the composer
\* are in their initial state.
C6_FreshDraftOnOpen ==
    [][~isOpen /\ isOpen'
         => /\ formData'.items = <<>>
            /\ formData'.total = 0
            /\ formData'.supplier = Empty
            /\ formData'.paymentMethod = ""
            /\ formData'.notes = ""
            /\ formData'.status = "pending"
            /\ formData'.statusHistory = <<[status |-> "pending"]>>
            /\ newItem' = [name |-> Empty, quantity |-> 1, price |-> 0]
            /\ productSearch' = Empty]_vars

\* the digits of k in decimal, written with w digits
DecimalOfWidth(k, w) == [i \in 1..w |-> DigitChar((k \div (10 ^ (w - i))) % 10)]

\* the number of decimal digits of k
DecimalWidth(k) == CHOOSE w \in 1..(MaxSuffix + 2) : k < 10 ^ w /\ (w = 1 \/ k >= 10 ^ (w - 1))

\* the number written by an all-digit string
DecimalValue(s) ==
    LET RECURSIVE Val(_)
        Val(i) == IF i = 0 THEN 0 ELSE 10 * Val(i - 1) + DigitVal(s[i])
    IN  Val(Len(s))

\* s is ORD-n with n written in decimal
IsOrdN(s) ==
    /\ Len(s) > 4
    /\ SubSeq(s, 1, 4) = <<"O", "R", "D", "-">>
    /\ \A i \in 5..Len(s) : IsDigit(s[i])

\* C7: the order number of a form mounted without a previous number is
\* ORD-001; mounted with ORD-n it is ORD- followed by n+1 in decimal,
\* zero-padded on the left to at least 3 digits.
C7_NextOrderNumber ==
    /\ lastOrderNumber = Undefined
         => formData.orderNumber = <<"O", "R", "D", "-", "0", "0", "1">>
    /\ IsOrdN(lastOrderNumber)
         => LET n == DecimalValue(SubSeq(lastOrderNumber, 5, Len(lastOrderNumber)))
                w == IF DecimalWidth(n + 1) < 3 THEN 3 ELSE DecimalWidth(n + 1)
            IN  formData.orderNumber =
                    <<"O", "R", "D", "-">> \o DecimalOfWidth(n + 1, w)

\* ORD-099 gives ORD-100
C7_Witness ==
    /\ lastOrderNumber = <<"O", "R", "D", "-", "0", "9", "9">>
    /\ formData.orderNumber = <<"O", "R", "D", "-", "1", "0", "0">>

\* C8: an addItem step with a complete composer appends one item built from
\* the composer, with subtotal quantity times price, adds that subtotal to
\* the total, resets the composer and the product search string, and
\* changes no other field of the draft.
C8_AddItemCommit ==
    [][addItem /\ ComposerComplete
         => LET sub == newItem.quantity * newItem.price
            IN  /\ formData'.items =
                       formData.items \o <<[name |-> newItem.name,
                                            quantity |-> newItem.quantity,
                                            price |-> newItem.price,
                                            subtotal |-> sub]>>
                /\ formData'.total = formData.total + sub
                /\ newItem' = [name |-> Empty, quantity |-> 1, price |-> 0]
                /\ productSearch' = Empty
                /\ [formData' EXCEPT !.items = <<>>, !.total = 0] =
                       [formData EXCEPT !.items = <<>>, !.total = 0]]_vars

\* a complete composer with a quantity other than 1 next to a draft that
\* already holds an item
C8_Witness ==
    /\ isOpen
    /\ ComposerComplete
    /\ newItem.quantity # 1
    /\ Len(formData.items) = 1

C10_AddItemGuard ==
    [][addItem
         => /\ addDisabled <=> ~ComposerComplete
            /\ ~ComposerComplete
                 => /\ formData' = formData
                    /\ newItem' = newItem
                    /\ productSearch' = productSearch]_vars

\* a product is staged and the typed quantity is 0
C10_Witness ==
    /\ isOpen
    /\ newItem.name = Pan
    /\ newItem.price = 1500
    /\ newItem.quantity = 0


\* C11: every line item of the draft has a quantity that is a positive
\* integer and a unit price that is not negative, and no subtotal and no
\* total is negative.
C11_ItemsWellFormed ==
    /\ \A i \in 1..Len(formData.items) :
           /\ formData.items[i].quantity \in Nat \ {0}
           /\ formData.items[i].price >= 0
           /\ formData.items[i].subtotal >= 0
    /\ formData.total >= 0

\* C12: an addItem step that commits does so with a composer whose name
\* and price are those of a loaded product of the draft's supplier,
\* compared ignoring case.
C12_CommitsCatalogProduct ==
    [][addItem /\ formData'.items # formData.items
         => \E k \in 1..Len(products) :
                /\ products[k].name = newItem.name
                /\ products[k].price = newItem.price
                /\ toLowerCase(products[k].supplier) =
                       toLowerCase(formData.supplier)]_vars

\* the list items with its element at index i deleted
Deleted(items, i) == SubSeq(items, 1, i - 1) \o SubSeq(items, i + 1, Len(items))

\* C13: every step leaves the item list unchanged, or appends one item at
\* its end, or deletes the item at one index and keeps all others in
\* order; a deleting step lowers the total by the deleted item's subtotal.
C13_AppendOrRemoveWhole ==
    [][\/ formData'.items = formData.items
       \/ \E it \in Elements(formData'.items) :
              formData'.items = Append(formData.items, it)
       \/ /\ removeItem
          /\ \E i \in 1..Len(formData.items) :
                 /\ formData'.items = Deleted(formData.items, i)
                 /\ formData'.total =
                        formData.total - formData.items[i].subtotal]_vars

\* the draft holds two identical items, one of which can be removed
C13_Witness ==
    /\ isOpen
    /\ Len(formData.items) = 2
    /\ formData.items[1] = formData.items[2]
    /\ formData.items[1].quantity # 1


\* C14: a failed catalog load leaves its list empty, starts no further
\* load, and changes neither the draft nor the composer.
C14_FailedLoadLeavesListEmpty ==
    [][/\ loadSuppliersFail
            => /\ suppliers' = <<>>
               /\ pendingSuppliers' < pendingSuppliers
               /\ pendingProducts' = pendingProducts
               /\ UNCHANGED <<formData, newItem, productSearch, supplierSearch>>
       /\ loadProductsFail
            => /\ products' = <<>>
               /\ pendingProducts' < pendingProducts
               /\ pendingSuppliers' = pendingSuppliers
               /\ UNCHANGED <<formData, newItem, productSearch, supplierSearch>>]_vars

\* the state slices a catalog load can reach: catalog, draft and composer
Slices ==
    [suppliers |-> suppliers,
     products |-> products,
     filteredProducts |-> filteredProducts,
     formData |-> formData,
     newItem |-> newItem,
     supplierSearch |-> supplierSearch,
     productSearch |-> productSearch]

\* the slices after the supplier load completes (ok: it succeeded)
AfterSupplierLoad(st, ok) ==
    IF ok THEN [st EXCEPT !.suppliers = SupplierCatalog] ELSE st

\* the slices after the product load completes (ok: it succeeded)
AfterProductLoad(st, ok) ==
    IF ok
    THEN [st EXCEPT
            !.products = ProductCatalog,
            !.filteredProducts =
                IF st.formData.supplier = Empty THEN <<>>
                ELSE SelectSeq(ProductCatalog,
                               LAMBDA p : toLowerCase(p.supplier) =
                                              toLowerCase(st.formData.supplier)),
            !.newItem = [name |-> Empty,
                         quantity |-> st.newItem.quantity,
                         price |-> 0],
            !.productSearch = Empty]
    ELSE st

\* from the current state the two completions give the same slices in
\* either order, whatever their outcomes
CompletionsCommute ==
    \A a, b \in BOOLEAN :
        AfterProductLoad(AfterSupplierLoad(Slices, a), b) =
            AfterSupplierLoad(AfterProductLoad(Slices, b), a)

\* C15: every completion of a catalog load changes the slices as
\* AfterSupplierLoad and AfterProductLoad say, and from every state with
\* both loads in flight (each such state has a step of the supplier load)
\* the two completions give the same slices in either order.
C15_LoadsCommute ==
    [][/\ loadSuppliersOk
            => /\ Slices' = AfterSupplierLoad(Slices, TRUE)
               /\ pendingProducts > 0 => CompletionsCommute
       /\ loadSuppliersFail => Slices' = AfterSupplierLoad(Slices, FALSE)
       /\ loadProductsOk => Slices' = AfterProductLoad(Slices, TRUE)
       /\ loadProductsFail => Slices' = AfterProductLoad(Slices, FALSE)]_vars

\* both loads of a second open are in flight while a product is staged and
\* the lists of the first open are still held
C15_Witness ==
    /\ isOpen
    /\ pendingSuppliers > 0
    /\ pendingProducts > 0
    /\ newItem.name = Pan
    /\ suppliers # <<>>

\* C16: the completion of a catalog load leaves the draft and the
\* composer's name, price, quantity and product search string unchanged.
C16_LoadKeepsComposer ==
    [][(loadSuppliersOk \/ loadSuppliersFail \/ loadProductsOk \/ loadProductsFail)
         => UNCHANGED <<formData, newItem, productSearch>>]_vars


\* C17: the order number of a draft handed to onSave is the successor of
\* the lastOrderNumber the form was opened with.
C17_SavedNumberFollowsProp ==
    \A i \in 1..Len(calls) :
        calls[i].cb = "onSave"
            => calls[i].order.orderNumber = generateOrderNumber(lastOrderNumber)

\* C18: the order number of a form mounted with any lastOrderNumber is
\* ORD- followed by one or more decimal digits and nothing else.
C18_OrderNumberIsNumeric ==
    /\ Len(formData.orderNumber) > 4
    /\ SubSeq(formData.orderNumber, 1, 4) = <<"O", "R", "D", "-">>
    /\ \A i \in 5..Len(formData.orderNumber) : IsDigit(formData.orderNumber[i])

\* C19: while the draft's supplier is empty nothing is staged and the add
\* button is disabled.
C19_NoSupplierNothingStaged ==
    formData.supplier = Empty
        => /\ newItem.name = Empty
           /\ newItem.price = 0
           /\ addDisabled

\* the supplier was emptied after an item had been committed, with the
\* product list loaded
C19_Witness ==
    /\ isOpen
    /\ formData.supplier = Empty
    /\ formData.items # <<>>
    /\ products # <<>>

\* C20: the supplier search string equals the draft's supplier in every
\* state, and only typing in the supplier input and handleSupplierSelect
\* change either.
C20_SearchIsSupplier ==
    /\ [](supplierSearch = formData.supplier)
    /\ [][(supplierSearch' # supplierSearch \/ formData'.supplier # formData.supplier)
            => (supplierInputChange \/ handleSupplierSelect)]_vars

\* a supplier picked from the list after a search string had been typed
C20_Witness ==
    /\ isOpen
    /\ supplierSearch = Acme
    /\ formData.supplier = Acme
    /\ newItem.name = Pan


\* C21: in every reachable state the product search string equals the
\* composer's staged name.
C21_SearchIsStagedName == productSearch = newItem.name

\* a product picked from the list after a search string had been typed,
\* next to a draft that already holds a committed item
C21_Witness ==
    /\ isOpen
    /\ productSearch = Pan
    /\ newItem.name = Pan
    /\ newItem.price = 1500
    /\ formData.items # <<>>

====
